---- MODULE Spec2Model ----
(***************************************************************************)
(* Model of pkg/config/config.go of uhc-cli: the configuration record, its *)
(* persistence in $HOME/.uhc.json (Load, Save, Remove, Location) and the   *)
(* Armed decision with its token expiry evaluation.                        *)
(*                                                                         *)
(* Strings are modelled by what the code can observe of them: whether they *)
(* are empty, whether they are valid UTF-8 (json.Marshal), and their shape *)
(* as a JWT (jwt.Parser.ParseUnverified).  Time is counted in ticks, with  *)
(* TicksPerSecond ticks in a second, so that time.Now() has a sub-second   *)
(* part and a float64 'exp' claim can have a fractional part.  The process *)
(* runs as an unprivileged owner of the file and of the home directory.    *)
(***************************************************************************)
EXTENDS Integers, Sequences, FiniteSets, TLC

VARIABLES home, dir, file, prev, saved, cfg, err, op, now, res

vars == <<home, dir, file, prev, saved, cfg, err, op, now, res>>

----------------------------------------------------------------------------
(* Bounds of the model *)

TicksPerSecond == 2

MaxExpSeconds == 13

MaxNowTicks == 3

MaxNonEmpty == 1

----------------------------------------------------------------------------
(* Strings *)

Nil == "nil"

\* a Go string: its text, and for a well-formed JWT the claims of its payload
Str(text, claims) == [text |-> text, claims |-> claims]

Empty == Str("", {})

Plain == Str("a", {})

\* a string holding the single byte 0xff, which is not valid UTF-8
BadUtf8 == Str("\\xff", {})

\* the string holding U+FFFD, the Unicode replacement character
Replacement == Str("\\ufffd", {})

\* texts that jwt-go can not decode: a single segment (Plain), a payload that
\* is not base64url, a payload that is not a JSON object
BadBase64 == Str("h.!.s", {})

NotObject == Str("h.[].s", {})

Claim(name, type, val) == [name |-> name, type |-> type, val |-> val]

\* header.payload.signature with the given claims in the payload
Jwt(claims) == Str("h.p.s", claims)

JwtNoExp == Jwt({Claim("sub", "string", 0)})

JwtStringExp == Jwt({Claim("exp", "string", 0)})

\* a numeric 'exp' of v ticks, that is the float64 v / TicksPerSecond
JwtExp(v) == Jwt({Claim("sub", "string", 0), Claim("exp", "float64", v)})

IsEmpty(s) == s.text = ""

----------------------------------------------------------------------------
(* Config *)

ZeroSlice == [isnil |-> TRUE, elems |-> <<>>]

Slice(elems) == [isnil |-> FALSE, elems |-> elems]

ZeroConfig ==
  [AccessToken |-> Empty, ClientID |-> Empty, ClientSecret |-> Empty,
   Insecure |-> FALSE, Password |-> Empty, RefreshToken |-> Empty,
   Scopes |-> ZeroSlice, Token |-> Empty, TokenURL |-> Empty, URL |-> Empty,
   User |-> Empty]

\* a *Config: <<>> is the nil pointer
NilCfg == <<>>

Ptr(c) == <<c>>

----------------------------------------------------------------------------
(* Token expiry *)

Second == TicksPerSecond

\* the conversion int64(exp) of a float64: truncation toward zero
Int64(v) == IF v >= 0 THEN v \div TicksPerSecond ELSE -((-v) \div TicksPerSecond)

\* time.Unix(sec, 0), as ticks since the epoch
Unix(sec) == sec * TicksPerSecond

\* t.Sub(u); the instants of the model are far from the saturation of Duration
Sub(t, u) == t - u

ParseUnverified(text) ==
  IF text.text = "h.p.s"
  THEN [err |-> Nil, claims |-> text.claims]
  ELSE [err |-> "token is malformed", claims |-> {}]

HasClaim(claims, name) == \E c \in claims : c.name = name

GetClaim(claims, name) == CHOOSE c \in claims : c.name = name

Expiry(expires, left, e) == [expires |-> expires, left |-> left, err |-> e]

tokenExpiryNoExpEternal(text, t) ==
  LET p == ParseUnverified(text)
  IN IF p.err # Nil THEN Expiry(FALSE, 0, "cant parse token")
     ELSE IF ~HasClaim(p.claims, "exp") THEN Expiry(FALSE, 0, Nil)
     ELSE LET claim == GetClaim(p.claims, "exp")
          IN IF claim.type # "float64"
             THEN Expiry(FALSE, 0, "expected floating point 'exp'")
             ELSE IF claim.val = 0 THEN Expiry(FALSE, 0, Nil)
             ELSE Expiry(TRUE, Sub(Unix(Int64(claim.val)), t), Nil)

tokenExpiry(text, t) ==
  LET p == ParseUnverified(text)
  IN IF p.err # Nil THEN Expiry(FALSE, 0, "cant parse token")
     ELSE IF ~HasClaim(p.claims, "exp")
     THEN Expiry(FALSE, 0, "token doesn't contain the 'exp' claim")
     ELSE LET claim == GetClaim(p.claims, "exp")
          IN IF claim.type # "float64"
             THEN Expiry(FALSE, 0, "expected floating point 'exp'")
             ELSE IF claim.val = 0 THEN Expiry(FALSE, 0, Nil)
             ELSE Expiry(TRUE, Sub(Unix(Int64(claim.val)), t), Nil)

----------------------------------------------------------------------------
(* Armed *)

\* the result of a call of Armed: the two results, the token fields that
\* were passed to tokenExpiry in order, and whether the call panicked
Result(armed, e, calls) ==
  [armed |-> armed, err |-> e, calls |-> calls, panic |-> FALSE]

Panic == [armed |-> FALSE, err |-> Nil, calls |-> <<>>, panic |-> TRUE]

NoResult == [armed |-> FALSE, err |-> Nil, calls |-> <<>>, panic |-> FALSE]

AccessMarginSeconds == 5

RefreshMarginSeconds == 10

ArmsInclusive(e, margin) == ~e.expires \/ e.left >= margin

\* the test "!expires || left > margin" of lines 144 and 156
Arms(e, margin) == ~e.expires \/ e.left > margin

ArmedRefreshAccessMargin(c, t, calls) ==
  IF ~IsEmpty(c.RefreshToken)
  THEN LET e == tokenExpiry(c.RefreshToken, t)
           cs == Append(calls, "RefreshToken")
       IN IF e.err # Nil THEN Result(FALSE, e.err, cs)
          ELSE IF Arms(e, AccessMarginSeconds * Second)
          THEN Result(TRUE, Nil, cs)
          ELSE Result(FALSE, Nil, cs)
  ELSE Result(FALSE, Nil, calls)

\* the refresh-token part of Armed, lines 149-161
ArmedRefresh(c, t, calls) ==
  IF ~IsEmpty(c.RefreshToken)
  THEN LET e == tokenExpiry(c.RefreshToken, t)
           cs == Append(calls, "RefreshToken")
       IN IF e.err # Nil THEN Result(FALSE, e.err, cs)
          ELSE IF Arms(e, RefreshMarginSeconds * Second)
          THEN Result(TRUE, Nil, cs)
          ELSE Result(FALSE, Nil, cs)
  ELSE Result(FALSE, Nil, calls)

ArmedTokensFallThrough(c, t) ==
  IF ~IsEmpty(c.AccessToken)
  THEN LET e == tokenExpiry(c.AccessToken, t)
           cs == <<"AccessToken">>
       IN IF e.err = Nil /\ Arms(e, AccessMarginSeconds * Second)
          THEN Result(TRUE, Nil, cs)
          ELSE ArmedRefresh(c, t, cs)
  ELSE ArmedRefresh(c, t, <<>>)

ArmedTokensAccessOnly(c, t) ==
  IF ~IsEmpty(c.AccessToken)
  THEN LET e == tokenExpiry(c.AccessToken, t)
           cs == <<"AccessToken">>
       IN IF e.err # Nil THEN Result(FALSE, e.err, cs)
          ELSE IF Arms(e, AccessMarginSeconds * Second)
          THEN Result(TRUE, Nil, cs)
          ELSE Result(FALSE, Nil, cs)
  ELSE ArmedRefresh(c, t, <<>>)

\* the access-token part of Armed and what follows it, lines 136-161
ArmedTokens(c, t) ==
  IF ~IsEmpty(c.AccessToken)
  THEN LET e == tokenExpiry(c.AccessToken, t)
           cs == <<"AccessToken">>
       IN IF e.err # Nil THEN Result(FALSE, e.err, cs)
          ELSE IF Arms(e, AccessMarginSeconds * Second)
          THEN Result(TRUE, Nil, cs)
          ELSE ArmedRefresh(c, t, cs)
  ELSE ArmedRefresh(c, t, <<>>)

HasUserPassword(c) == ~IsEmpty(c.User) /\ ~IsEmpty(c.Password)

HasClientCredentialsMixed(c) == ~IsEmpty(c.ClientID) /\ ~IsEmpty(c.Password)

HasClientCredentials(c) == ~IsEmpty(c.ClientID) /\ ~IsEmpty(c.ClientSecret)

\* Armed(cfg) reading the clock as t; a nil cfg is dereferenced at line 128
Armed(p, t) ==
  IF p = NilCfg THEN Panic
  ELSE LET c == p[1]
       IN IF HasUserPassword(c) THEN Result(TRUE, Nil, <<>>)
          ELSE IF HasClientCredentials(c) THEN Result(TRUE, Nil, <<>>)
          ELSE ArmedTokens(c, t)

----------------------------------------------------------------------------
(* JSON encoding of a Config *)

\* encoding/json writes a string as UTF-8 text: every invalid byte becomes
\* U+FFFD; reading the text back gives the string that was written
jsonString(s) == IF s.text = "\\xff" THEN Replacement ELSE s

JString(s) == [t |-> "string", s |-> jsonString(s), b |-> FALSE, a |-> <<>>]

JBool(b) == [t |-> "bool", s |-> Empty, b |-> b, a |-> <<>>]

JArray(elems) ==
  [t |-> "array", s |-> Empty, b |-> FALSE,
   a |-> [i \in 1..Len(elems) |-> jsonString(elems[i])]]

Member(key, val) == [key |-> key, val |-> val]

Doc(kind, members) == [kind |-> kind, members |-> members]

\* the members of the object, each under its json tag of lines 35-45
Members(c) ==
  {Member("access_token", JString(c.AccessToken)),
   Member("client_id", JString(c.ClientID)),
   Member("client_secret", JString(c.ClientSecret)),
   Member("insecure", JBool(c.Insecure)),
   Member("password", JString(c.Password)),
   Member("refresh_token", JString(c.RefreshToken)),
   Member("scopes", JArray(c.Scopes.elems)),
   Member("token", JString(c.Token)),
   Member("token_url", JString(c.TokenURL)),
   Member("url", JString(c.URL)),
   Member("user", JString(c.User))}

\* omitempty: a false, an empty string and a slice of length 0 are left out
OmitEmpty(v) ==
  \/ v.t = "string" /\ v.s.text = ""
  \/ v.t = "bool" /\ ~v.b
  \/ v.t = "array" /\ Len(v.a) = 0

\* json.MarshalIndent(cfg, "", "  "); a nil *Config is written as null
MarshalIndent(p) ==
  IF p = NilCfg THEN Doc("null", {})
  ELSE Doc("object", {m \in Members(p[1]) : ~OmitEmpty(m.val)})

HasMember(d, key) == \E m \in d.members : m.key = key

GetMember(d, key) == (CHOOSE m \in d.members : m.key = key).val

StringField(d, key) == IF HasMember(d, key) THEN GetMember(d, key).s ELSE Empty

\* json.Unmarshal(data, cfg) into a new(Config): a member that is absent
\* leaves the zero value of its field, and null leaves the whole Config
Unmarshal(d) ==
  IF d.kind = "garbage" THEN [err |-> "invalid character", cfg |-> ZeroConfig]
  ELSE IF d.kind = "null" THEN [err |-> Nil, cfg |-> ZeroConfig]
  ELSE [err |-> Nil,
        cfg |-> [AccessToken |-> StringField(d, "access_token"),
                 ClientID |-> StringField(d, "client_id"),
                 ClientSecret |-> StringField(d, "client_secret"),
                 Insecure |-> IF HasMember(d, "insecure")
                              THEN GetMember(d, "insecure").b ELSE FALSE,
                 Password |-> StringField(d, "password"),
                 RefreshToken |-> StringField(d, "refresh_token"),
                 Scopes |-> IF HasMember(d, "scopes")
                            THEN Slice(GetMember(d, "scopes").a) ELSE ZeroSlice,
                 Token |-> StringField(d, "token"),
                 TokenURL |-> StringField(d, "token_url"),
                 URL |-> StringField(d, "url"),
                 User |-> StringField(d, "user")]]

----------------------------------------------------------------------------
(* The file system, as seen by the unprivileged owner of the home directory *)

\* the file: <<>> when it does not exist, else <<[mode, data]>>
NoFile == <<>>

File(mode, data) == <<[mode |-> mode, data |-> data]>>

\* the permission argument 0600 of ioutil.WriteFile, line 90
Perm0600 == 384

OwnerRead(mode) == (mode \div 256) % 2 = 1

OwnerWrite(mode) == (mode \div 128) % 2 = 1

\* the home directory: "rwx" can be searched and written, "r-x" can be
\* searched only, "---" can not be searched, "absent" does not exist
DirStates == {"rwx", "r-x", "---", "absent"}

\* os.Stat(file)
Stat(d, f) ==
  IF d = "absent" THEN "ENOENT"
  ELSE IF d = "---" THEN "EACCES"
  ELSE IF f = NoFile THEN "ENOENT"
  ELSE Nil

IsNotExist(e) == e = "ENOENT"

\* ioutil.ReadFile(file)
ReadFile(d, f) ==
  IF Stat(d, f) # Nil THEN [err |-> Stat(d, f), data |-> Doc("garbage", {})]
  ELSE IF ~OwnerRead(f[1].mode) THEN [err |-> "EACCES", data |-> Doc("garbage", {})]
  ELSE [err |-> Nil, data |-> f[1].data]

\* ioutil.WriteFile(file, data, perm): open with O_WRONLY|O_CREATE|O_TRUNC and
\* write; perm is the mode of a file that is created, and the mode of a file
\* that exists is left as it is (the umask clears no owner bit)
WriteFile(d, f, data, perm) ==
  IF d = "absent" THEN [err |-> "ENOENT", file |-> f]
  ELSE IF d = "---" THEN [err |-> "EACCES", file |-> f]
  ELSE IF f = NoFile
  THEN IF d = "rwx" THEN [err |-> Nil, file |-> File(perm, data)]
       ELSE [err |-> "EACCES", file |-> f]
  ELSE IF ~OwnerWrite(f[1].mode) THEN [err |-> "EACCES", file |-> f]
  ELSE [err |-> Nil, file |-> File(f[1].mode, data)]

\* os.Remove(file)
OsRemove(d, f) ==
  IF Stat(d, f) # Nil THEN [err |-> Stat(d, f), file |-> f]
  ELSE IF d # "rwx" THEN [err |-> "EACCES", file |-> f]
  ELSE [err |-> Nil, file |-> NoFile]

----------------------------------------------------------------------------
(* Location, Load, Save, Remove *)

Location(h) ==
  IF h = ""
  THEN [path |-> "", err |-> "can't find home directory, HOME environment variable is empty"]
  ELSE [path |-> ".uhc.json", err |-> Nil]

\* Load(): the results cfg and err
LoadResult(h, d, f) ==
  IF Location(h).err # Nil THEN [cfg |-> NilCfg, err |-> Location(h).err]
  ELSE IF IsNotExist(Stat(d, f)) THEN [cfg |-> NilCfg, err |-> Nil]
  ELSE IF Stat(d, f) # Nil
  THEN [cfg |-> NilCfg, err |-> "can't check if config file exists"]
  ELSE IF ReadFile(d, f).err # Nil
  THEN [cfg |-> NilCfg, err |-> "can't read config file"]
  ELSE LET u == Unmarshal(ReadFile(d, f).data)
       IN IF u.err # Nil THEN [cfg |-> Ptr(u.cfg), err |-> "can't parse config file"]
          ELSE [cfg |-> Ptr(u.cfg), err |-> Nil]

\* Save(cfg): the file afterwards and the error returned
SaveResult(h, d, f, p) ==
  IF Location(h).err # Nil THEN [file |-> f, err |-> Location(h).err]
  ELSE LET w == WriteFile(d, f, MarshalIndent(p), Perm0600)
       IN IF w.err # Nil THEN [file |-> w.file, err |-> "can't write file"]
          ELSE [file |-> w.file, err |-> Nil]

RemoveUnchecked(h, d, f) ==
  IF Location(h).err # Nil THEN [file |-> f, err |-> Location(h).err]
  ELSE OsRemove(d, f)

\* Remove(): the file afterwards and the error returned
RemoveResult(h, d, f) ==
  IF Location(h).err # Nil THEN [file |-> f, err |-> Location(h).err]
  ELSE IF IsNotExist(Stat(d, f)) THEN [file |-> f, err |-> Nil]
  ELSE OsRemove(d, f)

----------------------------------------------------------------------------
(* Inputs *)

Nows == 0..MaxNowTicks

ExpValues == 0..(MaxExpSeconds * TicksPerSecond)

Tokens ==
  {Empty, Plain, BadBase64, NotObject, JwtNoExp, JwtStringExp}
    \cup {JwtExp(v) : v \in ExpValues}

Credentials == {Empty, Plain}

\* the records given to Armed by a caller: every combination of the six
\* fields that Armed reads
ArmedRecords ==
  {[ZeroConfig EXCEPT !.User = u, !.Password = pw, !.ClientID = id,
                      !.ClientSecret = sec, !.AccessToken = at,
                      !.RefreshToken = rt] :
     u \in Credentials, pw \in Credentials, id \in Credentials,
     sec \in Credentials, at \in Tokens, rt \in Tokens}

StringFields ==
  {"AccessToken", "ClientID", "ClientSecret", "Password", "RefreshToken",
   "Token", "TokenURL", "URL", "User"}

NonEmptyCount(c) ==
  Cardinality({f \in StringFields : ~IsEmpty(c[f])})
    + (IF c.Insecure THEN 1 ELSE 0) + (IF c.Scopes # ZeroSlice THEN 1 ELSE 0)

FarExp == MaxExpSeconds * TicksPerSecond

\* the records given to Save: at most MaxNonEmpty fields are set
StoreRecords ==
  {c \in [AccessToken : {Empty, Plain, JwtExp(0), JwtExp(1)},
          ClientID : Credentials, ClientSecret : Credentials,
          Insecure : BOOLEAN, Password : Credentials,
          RefreshToken : {Empty, JwtNoExp, JwtExp(FarExp)},
          Scopes : {ZeroSlice, Slice(<<>>), Slice(<<Plain, BadUtf8>>)},
          Token : Credentials, TokenURL : Credentials, URL : Credentials,
          User : {Empty, Plain, BadUtf8}] :
     NonEmptyCount(c) <= MaxNonEmpty}

PriorModes == {Perm0600, 420, 256, 128}

PriorDocs ==
  {Doc("garbage", {}), Doc("null", {}),
   MarshalIndent(Ptr([ZeroConfig EXCEPT !.User = Plain, !.Password = Plain]))}

PriorFiles == {NoFile} \cup {File(m, d) : m \in PriorModes, d \in PriorDocs}

\* what the latest call saw of the file before it ran
Before(f) == IF f = NoFile THEN <<>> ELSE <<f[1].mode>>

----------------------------------------------------------------------------
(* The state machine.  home, dir and file are the environment; saved is the *)
(* record of the latest Save when it succeeded and no Save or Remove        *)
(* followed; op, prev, cfg, err, now and res describe the latest call.      *)

Init ==
  /\ home \in {"", "/home/u"}
  /\ dir \in DirStates
  /\ file \in PriorFiles
  /\ dir \in {"---", "absent"} => file = NoFile
  /\ prev = <<>>
  /\ saved = NilCfg
  /\ cfg = NilCfg
  /\ err = Nil
  /\ op = "start"
  /\ now = 0
  /\ res = NoResult

Save ==
  \E r \in StoreRecords :
    LET s == SaveResult(home, dir, file, Ptr(r))
    IN /\ file' = s.file
       /\ err' = s.err
       /\ saved' = IF s.err = Nil THEN Ptr(r) ELSE NilCfg
       /\ prev' = Before(file)
       /\ op' = "save"
       /\ cfg' = NilCfg
       /\ now' = 0
       /\ res' = NoResult
       /\ UNCHANGED <<home, dir>>

Load ==
  LET l == LoadResult(home, dir, file)
  IN /\ cfg' = l.cfg
     /\ err' = l.err
     /\ prev' = Before(file)
     /\ op' = "load"
     /\ now' = 0
     /\ res' = NoResult
     /\ UNCHANGED <<home, dir, file, saved>>

Remove ==
  LET r == RemoveResult(home, dir, file)
  IN /\ file' = r.file
     /\ err' = r.err
     /\ saved' = NilCfg
     /\ prev' = Before(file)
     /\ op' = "remove"
     /\ cfg' = NilCfg
     /\ now' = 0
     /\ res' = NoResult
     /\ UNCHANGED <<home, dir>>

\* the caller passes what it holds to Armed: a record of its own, or the
\* result of a Load that returned no error
ArmedCall ==
  /\ IF op = "load" THEN err = Nil ELSE op = "caller"
  /\ \E t \in Nows :
       /\ now' = t
       /\ res' = Armed(cfg, t)
  /\ op' = "armed"
  /\ UNCHANGED <<home, dir, file, prev, saved, cfg, err>>

Next == Save \/ Load \/ Remove \/ ArmedCall

Spec == Init /\ [][Next]_vars

\* Armed as a function of the record and of the clock
InitArmed ==
  /\ home = "/home/u"
  /\ dir = "rwx"
  /\ file = NoFile
  /\ prev = <<>>
  /\ saved = NilCfg
  /\ cfg \in {Ptr(c) : c \in ArmedRecords}
  /\ err = Nil
  /\ op = "caller"
  /\ now = 0
  /\ res = NoResult

NextArmed == ArmedCall

SpecArmed == InitArmed /\ [][NextArmed]_vars

----------------------------------------------------------------------------
(* Vocabulary of the properties *)

Called == op = "armed" /\ cfg # NilCfg

Rec == cfg[1]

Set(s) == s.text # ""

NoStaticPair(c) ==
  /\ ~(Set(c.User) /\ Set(c.Password))
  /\ ~(Set(c.ClientID) /\ Set(c.ClientSecret))

Decodes(s) == s.text = "h.p.s"

HasExp(s) == \E c \in s.claims : c.name = "exp"

NumericExp(s) ==
  Decodes(s) /\ \E c \in s.claims : c.name = "exp" /\ c.type = "float64"

ExpTicks(s) == (CHOOSE c \in s.claims : c.name = "exp").val

\* the time left, in ticks, from t to the exp instant, which is the instant
\* of the whole second of exp
Remaining(s, t) == (ExpTicks(s) - (ExpTicks(s) % TicksPerSecond)) - t

Outlives(s, t, seconds) ==
  ExpTicks(s) = 0 \/ Remaining(s, t) > seconds * TicksPerSecond

EvaluationFails(s) == Set(s) /\ ~NumericExp(s)

MissingExpError == "token doesn't contain the 'exp' claim"

ExpectedError(s) ==
  IF ~Decodes(s) THEN "cant parse token"
  ELSE IF ~HasExp(s) THEN MissingExpError
  ELSE "expected floating point 'exp'"

AccessEvaluated(c) == NoStaticPair(c) /\ Set(c.AccessToken)

AccessDoesNotArm(c, t) ==
  NumericExp(c.AccessToken) /\ ~Outlives(c.AccessToken, t, 5)

RefreshEvaluated(c, t) ==
  /\ NoStaticPair(c)
  /\ Set(c.RefreshToken)
  /\ ~Set(c.AccessToken) \/ AccessDoesNotArm(c, t)

MissingExp(s) == Decodes(s) /\ ~HasExp(s)

SameRecord(a, b) ==
  /\ \A f \in StringFields : a[f] = b[f]
  /\ a.Insecure = b.Insecure
  /\ a.Scopes.elems = b.Scopes.elems

----------------------------------------------------------------------------
(* Properties of Armed, under SpecArmed *)

\* C1: a record with user and password both set, or clientId and clientSecret
\* both set, is armed with no error whatever the clock and the two tokens
\* are, and no token is evaluated.
C1_StaticPairArms ==
  (Called /\ ~NoStaticPair(Rec)) =>
    /\ res.armed /\ res.err = Nil /\ ~res.panic
    /\ res.calls = <<>>

C1_Witness ==
  /\ Called
  /\ Set(Rec.User) /\ Set(Rec.Password) /\ ~Set(Rec.ClientID)
  /\ Rec.AccessToken = BadBase64 /\ Rec.RefreshToken = JwtNoExp
  /\ now > 0
  /\ res.armed

\* C2: with no complete static pair and an access token whose evaluation
\* fails, Armed returns that error, armed is not true, and the refresh token
\* is not evaluated, whatever it is.
C2_AccessErrorPropagates ==
  (Called /\ NoStaticPair(Rec) /\ EvaluationFails(Rec.AccessToken)) =>
    /\ res.err = ExpectedError(Rec.AccessToken)
    /\ ~res.armed /\ ~res.panic
    /\ res.calls = <<"AccessToken">>

C2_Witness ==
  /\ Called /\ NoStaticPair(Rec)
  /\ Rec.AccessToken = BadBase64
  /\ NumericExp(Rec.RefreshToken) /\ Outlives(Rec.RefreshToken, now, 10)
  /\ res.err = "cant parse token" /\ ~res.armed

OnlyAccessToken(c) ==
  /\ ~Set(c.User) /\ ~Set(c.Password) /\ ~Set(c.ClientID)
  /\ ~Set(c.ClientSecret) /\ ~Set(c.RefreshToken)
  /\ NumericExp(c.AccessToken)

\* C3: when the only credential is an access token with a numeric exp, Armed
\* returns no error and armed is true exactly when exp = 0 or the exp instant
\* (the whole second of exp) is more than 5 seconds after now; exp = now + 6 s
\* gives true, exp = now + 4 s and exp = now + 5 s give false.
C3_AccessMargin ==
  (Called /\ OnlyAccessToken(Rec)) =>
    LET exp == ExpTicks(Rec.AccessToken)
    IN /\ res.err = Nil /\ ~res.panic
       /\ res.armed <=> Outlives(Rec.AccessToken, now, 5)
       /\ exp = 0 => res.armed
       /\ exp = now + 6 * TicksPerSecond => res.armed
       /\ (exp # 0 /\ exp = now + 4 * TicksPerSecond) => ~res.armed
       /\ (exp # 0 /\ exp = now + 5 * TicksPerSecond) => ~res.armed

C3_Witness ==
  /\ Called /\ OnlyAccessToken(Rec)
  /\ now > 0
  /\ ExpTicks(Rec.AccessToken) = now + 5 * TicksPerSecond
  /\ ExpTicks(Rec.AccessToken) % TicksPerSecond = 0
  /\ ~res.armed /\ res.err = Nil

RefreshTokenDecides(c) ==
  NoStaticPair(c) /\ ~Set(c.AccessToken) /\ NumericExp(c.RefreshToken)

\* C4: with no complete static pair, no access token and a refresh token with
\* a numeric exp, Armed returns no error and armed is true exactly when
\* exp = 0 or the exp instant is more than 10 seconds after now; exp =
\* now + 11 s gives true, exp = now + 9 s and exp = now + 10 s give false.
C4_RefreshMargin ==
  (Called /\ RefreshTokenDecides(Rec)) =>
    LET exp == ExpTicks(Rec.RefreshToken)
    IN /\ res.err = Nil /\ ~res.panic
       /\ res.armed <=> Outlives(Rec.RefreshToken, now, 10)
       /\ exp = now + 11 * TicksPerSecond => res.armed
       /\ (exp # 0 /\ exp = now + 9 * TicksPerSecond) => ~res.armed
       /\ (exp # 0 /\ exp = now + 10 * TicksPerSecond) => ~res.armed

C4_Witness ==
  /\ Called /\ RefreshTokenDecides(Rec)
  /\ Set(Rec.User)
  /\ now > 0
  /\ ExpTicks(Rec.RefreshToken) = now + 10 * TicksPerSecond
  /\ ExpTicks(Rec.RefreshToken) % TicksPerSecond = 0
  /\ ~res.armed /\ res.err = Nil

\* C5: when the token that Armed evaluates decodes and has no exp claim,
\* Armed returns the missing-exp error and does not arm; it does not return
\* false with no error.
C5_MissingExpIsAnError ==
  (Called /\ (\/ AccessEvaluated(Rec) /\ MissingExp(Rec.AccessToken)
              \/ RefreshEvaluated(Rec, now) /\ MissingExp(Rec.RefreshToken))) =>
    /\ res.err = MissingExpError
    /\ ~res.armed /\ ~res.panic

C5_Witness ==
  /\ Called
  /\ AccessDoesNotArm(Rec, now)
  /\ RefreshEvaluated(Rec, now) /\ MissingExp(Rec.RefreshToken)
  /\ res.err = MissingExpError
  /\ res.calls = <<"AccessToken", "RefreshToken">>

\* C9: with no complete static pair and an access token that evaluates with
\* no error and does not arm, the outcome of Armed is that of the refresh
\* token: armed when it has exp = 0 or more than 10 seconds left, its error
\* when its evaluation fails, and not armed with no error when it is empty or
\* has at most 10 seconds left.
C9_FallsThroughToRefresh ==
  (Called /\ NoStaticPair(Rec) /\ AccessDoesNotArm(Rec, now)) =>
    /\ ~res.panic
    /\ IF ~Set(Rec.RefreshToken) THEN ~res.armed /\ res.err = Nil
       ELSE IF EvaluationFails(Rec.RefreshToken)
       THEN ~res.armed /\ res.err = ExpectedError(Rec.RefreshToken)
       ELSE /\ res.err = Nil
            /\ res.armed <=> Outlives(Rec.RefreshToken, now, 10)

C9_Witness ==
  /\ Called /\ NoStaticPair(Rec)
  /\ AccessDoesNotArm(Rec, now) /\ Remaining(Rec.AccessToken, now) < 0
  /\ NumericExp(Rec.RefreshToken) /\ ExpTicks(Rec.RefreshToken) # 0
  /\ res.armed /\ res.err = Nil

----------------------------------------------------------------------------
(* Properties of the record store, under Spec *)

\* C6: a Load that follows a successful Save of r, with no Save or Remove
\* between them, succeeds and returns a record equal to r field for field.
C6_RoundTrip ==
  (op = "load" /\ saved # NilCfg) =>
    /\ err = Nil
    /\ cfg # NilCfg
    /\ SameRecord(cfg[1], saved[1])

C8_SavedFileOwnerOnly ==
  (op = "save" /\ err = Nil) => (file # NoFile /\ file[1].mode = Perm0600)

\* C10: Armed completes, with a boolean or an error, on every result that
\* Load returns without an error.
C10_ArmedNeverCrashes == op = "armed" => ~res.panic

====
